---- MODULE Spec2Model ----
(***************************************************************************)
(* Model of vispy/visuals/_scalable_textures.py: the colour-limit (clim)   *)
(* aware texture mixins.  One texture object is modelled: its strategy     *)
(* (CPUScaledTextureMixIn or GPUScaledTextureMixin), its spatial rank      *)
(* (_ndim of Texture2D / Texture3D), the mixin's fields (_clim,            *)
(* _data_dtype, _data_limits, _auto_texture_format), the internalformat of *)
(* the underlying texture, and a record of the last call made on it.       *)
(*                                                                         *)
(* Numbers.  Sample values and colour limits are integers.  np.float32(x)  *)
(* is modelled by F32 (round to a 24 bit significand, ties to even).  The  *)
(* result of a division is kept as the reduced fraction <<n, d>> of its    *)
(* float operands; the rounding of the quotient itself is not modelled.    *)
(* nan (0/0 in float32) is the fraction <<0, 0>>.                          *)
(***************************************************************************)
EXTENDS Integers, Sequences, FiniteSets, TLC

VARIABLES
    strategy,             \* "cpu" | "gpu": which mixin the texture class composes
    ndim,                 \* self._ndim of the underlying Texture2D / Texture3D
    alive,                \* FALSE when __init__ raised: there is no object
    clim,                 \* self._clim
    data_dtype,           \* self._data_dtype
    data_limits,          \* self._data_limits (CPU strategy only)
    internalformat,       \* self.internalformat of the underlying texture
    auto_texture_format,  \* self._auto_texture_format
    last                  \* the last call made (__init__ at first): its arguments,
                          \* its outcome, the calls it issued to the texture

vars == <<strategy, ndim, alive, clim, data_dtype, data_limits,
          internalformat, auto_texture_format, last>>

-----------------------------------------------------------------------------
(* Bounds of the model *)

\* the largest number of elements of an input array
MaxElems == 2

\* sample values: negative, zero, and 2^24 + 1, the smallest positive integer
\* that float32 cannot represent
Values == {-100, 0, 16777217}

\* the numbers a caller passes to set_clim
ClimVals == {0, 16777217}

-----------------------------------------------------------------------------
(* Python / numpy values *)

None == "None"

\* numpy element types of the input arrays: two floating types, an unsigned and
\* a signed integer type of the format table, and one type outside the table
DTypes == {"float32", "float64", "uint8", "int16", "int32"}

IsFloating(dt) == dt \in {"float32", "float64"}

IInfoMin(dt) ==
    CASE dt = "uint8" -> 0
      [] dt = "uint16" -> 0
      [] dt = "int8" -> -128
      [] dt = "int16" -> -32768
      [] dt = "int32" -> -2147483647 - 1

IInfoMax(dt) ==
    CASE dt = "uint8" -> 255
      [] dt = "uint16" -> 65535
      [] dt = "int8" -> 127
      [] dt = "int16" -> 32767
      [] dt = "int32" -> 2147483647

Abs(x) == IF x < 0 THEN -x ELSE x

RECURSIVE Ulp(_, _)
\* the spacing of float32 values around x >= 0: the least g = 2^k with x < 2^24 * g
Ulp(x, g) == IF x \div g < 16777216 THEN g ELSE Ulp(x, 2 * g)

RoundHalfEven(x, g) ==
    LET q == x \div g
        r == x % g
    IN  IF 2 * r < g THEN q * g
        ELSE IF 2 * r > g THEN (q + 1) * g
        ELSE IF q % 2 = 0 THEN q * g ELSE (q + 1) * g

\* np.float32(x) for an integer x
F32(x) == IF x < 0 THEN -RoundHalfEven(-x, Ulp(-x, 1))
          ELSE RoundHalfEven(x, Ulp(x, 1))

\* a value of dtype dt can hold v
Holds(dt, v) ==
    CASE dt = "float32" -> F32(v) = v
      [] dt = "float64" -> TRUE
      [] OTHER -> IInfoMin(dt) <= v /\ v <= IInfoMax(dt)

RECURSIVE GCD(_, _)
GCD(a, b) == IF b = 0 THEN a ELSE GCD(b, a % b)

\* the fraction n / d in lowest terms with a positive denominator; 0/0 is nan
Frac(n, d) ==
    IF d = 0 THEN <<(IF n > 0 THEN 1 ELSE IF n < 0 THEN -1 ELSE 0), 0>>
    ELSE LET g == GCD(Abs(n), Abs(d))
             s == IF d < 0 THEN -1 ELSE 1
         IN  <<s * (n \div g), s * (d \div g)>>

NaN == <<0, 0>>

SeqMin(s) == CHOOSE m \in {s[i] : i \in 1..Len(s)} : \A i \in 1..Len(s) : m <= s[i]
SeqMax(s) == CHOOSE m \in {s[i] : i \in 1..Len(s)} : \A i \in 1..Len(s) : m >= s[i]

RECURSIVE Product(_)
Product(s) == IF s = <<>> THEN 1 ELSE Head(s) * Product(Tail(s))

-----------------------------------------------------------------------------
(* Input arrays: [dtype, shape, vals], vals the elements in storage order *)

Dims == 1..MaxElems

\* no method reads the length of the first axis: it is 1
ShapesOfRank(r) == {s \in [1..r -> Dims] : s[1] = 1 /\ Product(s) <= MaxElems}

\* ranks ndim (no channel axis) and ndim + 1 (channel axis)
Shapes(nd) == ShapesOfRank(nd) \cup ShapesOfRank(nd + 1)

DVals(dt) == {v \in Values : Holds(dt, v)}

\* multi-channel int32 arrays are left out: their default limits are
\* iinfo(int32), whose width is beyond the integers of the model checker
\* Every operation on the elements is elementwise or a minimum / maximum, so
\* the elements are enumerated in non-decreasing order only.
ArraysOf(nd) ==
    {a \in UNION {[dtype : {dt}, shape : {s}, vals : [1..Product(s) -> DVals(dt)]] :
                    dt \in DTypes, s \in Shapes(nd)} :
        /\ ~(a.dtype = "int32" /\ Len(a.shape) = nd + 1 /\ a.shape[nd + 1] > 1)
        /\ \A i \in 1..(Len(a.vals) - 1) : a.vals[i] <= a.vals[i + 1]}

Arrays2 == ArraysOf(2)
Arrays3 == ArraysOf(3)
Arrays(nd) == IF nd = 2 THEN Arrays2 ELSE Arrays3

NoData == [dtype |-> None, shape |-> <<>>, vals |-> <<>>]

IsNone(data) == data.dtype = None

\* data.ndim
Rank(data) == Len(data.shape)

\* construction reads only the element type and the shape of its data
ZeroArrays2 == {a \in Arrays2 : \A i \in 1..Len(a.vals) : a.vals[i] = 0}
ZeroArrays3 == {a \in Arrays3 : \A i \in 1..Len(a.vals) : a.vals[i] = 0}
ZeroArrays(nd) == IF nd = 2 THEN ZeroArrays2 ELSE ZeroArrays3

-----------------------------------------------------------------------------
(* Format tokens are sequences of characters, so that str.replace and       *)
(* indexing act on them as they do in Python.  NoFormat stands for None.    *)

NoFormat == <<>>

Auto == <<"a", "u", "t", "o">>

\* a texture format argument: None, a string, or a numpy type
HintNone == [kind |-> "none", tok |-> NoFormat, dt |-> None]
HintStr(t) == [kind |-> "str", tok |-> t, dt |-> None]
HintDType(d) == [kind |-> "dtype", tok |-> NoFormat, dt |-> d]

\* results of the helpers that can raise
Ok(v) == [err |-> "ok", val |-> v]
Raise(e) == [err |-> e, val |-> NoFormat]

\* GPUScaledTextureMixin._texture_dtype_format
TextureDtypeFormatKeys == {"float32", "float64", "uint8", "uint16", "int8", "int16"}

TextureDtypeFormat(dt) ==
    CASE dt = "float32" -> <<"r", "3", "2", "f">>
      [] dt = "float64" -> <<"r", "3", "2", "f">>
      [] dt = "uint8" -> <<"r", "8">>
      [] dt = "uint16" -> <<"r", "1", "6">>
      [] dt = "int8" -> <<"r", "8">>
      [] dt = "int16" -> <<"r", "1", "6">>

\* 'rgba'[:n]
RgbaPrefix(n) ==
    SubSeq(<<"r", "g", "b", "a">>, 1, IF n > 4 THEN 4 ELSE IF n < 0 THEN 0 ELSE n)

RECURSIVE StrReplaceR(_, _)
\* tok.replace('r', new)
StrReplaceR(tok, new) ==
    IF tok = <<>> THEN <<>>
    ELSE (IF Head(tok) = "r" THEN new ELSE <<Head(tok)>>) \o StrReplaceR(Tail(tok), new)

\* _data_num_channels that gives 4 to every array without a channel axis
DataNumChannelsDefaultFour(nd, data, format) ==
    IF format = "luminance" THEN 1
    ELSE IF ~IsNone(data) /\ Rank(data) = nd + 1
         THEN data.shape[Rank(data)]
         ELSE 4

\* _ScaledTextureMixin._data_num_channels
DataNumChannels(nd, data, format) ==
    IF format = "luminance" THEN 1
    ELSE IF ~IsNone(data)
         THEN (IF Rank(data) = nd + 1 THEN data.shape[Rank(data)] ELSE 1)
         ELSE 4

\* _ScaledTextureMixin._create_rep_array: zeros of shape (10,) * ndim + (channels,);
\* only the element type and the shape of the result are ever read
CreateRepArray(nd, data, format) ==
    [dtype |-> IF IsNone(data) THEN "float32" ELSE data.dtype,
     shape |-> [i \in 1..(nd + 1) |->
                   IF i <= nd THEN 10 ELSE DataNumChannels(nd, data, format)],
     vals |-> <<>>]

\* GPUScaledTextureMixin._handle_auto_texture_format: the format to resolve and
\* the value of _auto_texture_format, and whether the warning was emitted
HandleAutoTextureFormat(texture_format, data, autoflag) ==
    IF texture_format.kind = "str" /\ texture_format.tok = Auto
    THEN IF IsNone(data)
         THEN [fmt |-> HintNone, auto |-> autoflag, warned |-> TRUE]
         ELSE [fmt |-> HintDType(data.dtype), auto |-> TRUE, warned |-> FALSE]
    ELSE [fmt |-> texture_format, auto |-> autoflag, warned |-> FALSE]

\* _get_gl_tex_format without the expansion of 'r' to the channel count
GetGlTexFormatOneChannel(texture_format, num_channels) ==
    IF texture_format.kind = "dtype"
    THEN IF texture_format.dt \notin TextureDtypeFormatKeys
         THEN Raise("ValueError: can't determine internal texture format")
         ELSE Ok(TextureDtypeFormat(texture_format.dt))
    ELSE IF texture_format.kind = "none"
    THEN Raise("AttributeError: None has no replace")
    ELSE Ok(texture_format.tok)

\* _get_gl_tex_format that takes 'r32f' for a type the table does not hold
GetGlTexFormatFallback(texture_format, num_channels) ==
    IF texture_format.kind = "dtype"
    THEN IF texture_format.dt \notin TextureDtypeFormatKeys
         THEN Ok(StrReplaceR(<<"r", "3", "2", "f">>, RgbaPrefix(num_channels)))
         ELSE Ok(StrReplaceR(TextureDtypeFormat(texture_format.dt),
                             RgbaPrefix(num_channels)))
    ELSE IF texture_format.kind = "none"
    THEN Raise("AttributeError: None has no replace")
    ELSE Ok(StrReplaceR(texture_format.tok, RgbaPrefix(num_channels)))

\* GPUScaledTextureMixin._get_gl_tex_format
GetGlTexFormat(texture_format, num_channels) ==
    IF texture_format.kind = "dtype"
    THEN IF texture_format.dt \notin TextureDtypeFormatKeys
         THEN Raise("ValueError: can't determine internal texture format")
         ELSE Ok(StrReplaceR(TextureDtypeFormat(texture_format.dt),
                             RgbaPrefix(num_channels)))
    ELSE IF texture_format.kind = "none"
    THEN Raise("AttributeError: None has no replace")
    ELSE Ok(StrReplaceR(texture_format.tok, RgbaPrefix(num_channels)))

-----------------------------------------------------------------------------
(* Colour limits: None, 'auto' or a pair; data limits: None or a pair *)

ClimNone == [tag |-> "none", lo |-> 0, hi |-> 0]
ClimAuto == [tag |-> "auto", lo |-> 0, hi |-> 0]
ClimPair(a, b) == [tag |-> "pair", lo |-> a, hi |-> b]

\* isinstance(clim, str) and clim == 'auto'
IsAuto(c) == c.tag = "auto"

\* arguments of set_clim: a string, a scalar, or a sequence of numbers
ArgStr(x) == [kind |-> "str", s |-> x, v |-> <<>>]
ArgScalar(x) == [kind |-> "scalar", s |-> "", v |-> <<x>>]
ArgSeq(x) == [kind |-> "seq", s |-> "", v |-> x]

ClimArgs ==
    {ArgStr("auto"), ArgStr("bogus"), ArgScalar(0),
     ArgSeq(<<0>>), ArgSeq(<<0, 0, 0>>)}
    \cup {ArgSeq(<<a, b>>) : a \in ClimVals, b \in ClimVals}

\* set_clim without the test clim != 'auto': any string is taken as 'auto'
SetClimGenericAnyString(c, arg) ==
    IF arg.kind = "str"
    THEN [err |-> "ok", ret |-> TRUE, clim |-> ClimAuto]
    ELSE IF arg.kind = "scalar" \/ Len(arg.v) # 2
         THEN [err |-> "ValueError: clim must have two elements",
               ret |-> FALSE, clim |-> c]
         ELSE [err |-> "ok", ret |-> FALSE, clim |-> ClimPair(arg.v[1], arg.v[2])]

\* _ScaledTextureMixin.set_clim: what is raised, returned and stored
SetClimGeneric(c, arg) ==
    IF arg.kind = "str"
    THEN IF arg.s # "auto"
         THEN [err |-> "ValueError: clim must be auto if a string",
               ret |-> FALSE, clim |-> c]
         ELSE [err |-> "ok", ret |-> TRUE, clim |-> ClimAuto]
    ELSE IF arg.kind = "scalar" \/ Len(arg.v) # 2
         THEN [err |-> "ValueError: clim must have two elements",
               ret |-> FALSE, clim |-> c]
         ELSE [err |-> "ok", ret |-> FALSE, clim |-> ClimPair(arg.v[1], arg.v[2])]

\* _clim_outside_data_limits with "and" for "or"
ClimOutsideBothLimits(limits, cmin, cmax) ==
    IF limits.tag = "none" THEN FALSE
    ELSE cmin < limits.lo /\ cmax > limits.hi

\* CPUScaledTextureMixIn._clim_outside_data_limits
ClimOutsideDataLimits(limits, cmin, cmax) ==
    IF limits.tag = "none" THEN FALSE
    ELSE cmin < limits.lo \/ cmax > limits.hi

\* CPU set_clim that leaves need_texture_upload False for 'auto'
SetClimCPUQuietAuto(c, limits, arg) ==
    IF arg.kind = "str"
    THEN IF arg.s # "auto"
         THEN [err |-> "ValueError: clim must be auto if a string",
               ret |-> FALSE, clim |-> c]
         ELSE [err |-> "ok", ret |-> FALSE, clim |-> ClimAuto]
    ELSE IF arg.kind = "scalar" \/ Len(arg.v) # 2
         THEN [err |-> "ValueError: clim must have two elements",
               ret |-> FALSE, clim |-> c]
         ELSE [err |-> "ok",
               ret |-> ClimOutsideDataLimits(limits, arg.v[1], arg.v[2]),
               clim |-> ClimPair(arg.v[1], arg.v[2])]

\* CPUScaledTextureMixIn.set_clim
SetClimCPU(c, limits, arg) ==
    IF arg.kind = "str"
    THEN IF arg.s # "auto"
         THEN [err |-> "ValueError: clim must be auto if a string",
               ret |-> FALSE, clim |-> c]
         ELSE [err |-> "ok", ret |-> TRUE, clim |-> ClimAuto]
    ELSE IF arg.kind = "scalar" \/ Len(arg.v) # 2
         THEN [err |-> "ValueError: clim must have two elements",
               ret |-> FALSE, clim |-> c]
         ELSE [err |-> "ok",
               ret |-> ClimOutsideDataLimits(limits, arg.v[1], arg.v[2]),
               clim |-> ClimPair(arg.v[1], arg.v[2])]

\* _ScaledTextureMixin._get_default_clims
GetDefaultClims(data) ==
    IF IsFloating(data.dtype) THEN ClimPair(0, 1)
    ELSE ClimPair(IInfoMin(data.dtype), IInfoMax(data.dtype))

\* is_normalized that tests the suffix 'f' alone
IsNormalizedFloatOnly(fmt) ==
    IF fmt = NoFormat THEN TRUE
    ELSE fmt[Len(fmt)] # "f"

\* _ScaledTextureMixin.is_normalized; the last character of the token decides
IsNormalized(fmt) ==
    IF fmt = NoFormat THEN TRUE
    ELSE fmt[Len(fmt)] \notin {"f", "i"}

-----------------------------------------------------------------------------
(* Buffers: what set_data of the underlying texture receives, and what the   *)
(* caller's array holds after the call.  Elements are fractions.             *)

NoBuf == [dtype |-> None, vals |-> <<>>]

AsFracs(vals) == [i \in DOMAIN vals |-> Frac(vals[i], 1)]

\* vispy.gloo.texture.should_cast_to_f32: a floating type wider than 32 bits
ShouldCastToF32(dt) == dt = "float64"

\* _scale_data_on_cpu without the rule for clim[0] == clim[1]
ScaleDataOnCPUNoDegenerateRule(data, c, copy) ==
    IF ~copy /\ ~IsFloating(data.dtype)
    THEN [err |-> "ValueError: data must be of floating type for no copying",
          buf |-> NoBuf, caller |-> AsFracs(data.vals)]
    ELSE LET work == IF copy THEN "float32" ELSE data.dtype
             start(i) == IF copy THEN F32(data.vals[i]) ELSE data.vals[i]
             Rnd(x) == IF work = "float32" THEN F32(x) ELSE x
             scaled ==
                 [i \in DOMAIN data.vals |->
                     Frac(Rnd(start(i) - c.lo), F32(c.hi - c.lo))]
         IN  [err |-> "ok",
              buf |-> [dtype |-> IF ShouldCastToF32(work) THEN "float32" ELSE work,
                       vals |-> scaled],
              caller |-> IF copy THEN AsFracs(data.vals) ELSE scaled]

\* _scale_data_on_cpu that copies a non-floating array instead of raising
ScaleDataOnCPUFallbackCopy(data, c, copy) ==
    LET cp == copy \/ ~IsFloating(data.dtype)
        work == IF cp THEN "float32" ELSE data.dtype
        start(i) == IF cp THEN F32(data.vals[i]) ELSE data.vals[i]
        Rnd(x) == IF work = "float32" THEN F32(x) ELSE x
        scaled ==
            [i \in DOMAIN data.vals |->
                IF c.lo = c.hi
                THEN (IF c.lo # 0 THEN Frac(start(i), c.lo)
                      ELSE Frac(start(i), 1))
                ELSE Frac(Rnd(start(i) - c.lo), F32(c.hi - c.lo))]
    IN  [err |-> "ok",
         buf |-> [dtype |-> IF ShouldCastToF32(work) THEN "float32" ELSE work,
                  vals |-> scaled],
         caller |-> IF cp THEN AsFracs(data.vals) ELSE scaled]

\* CPUScaledTextureMixIn._scale_data_on_cpu; c holds np.float32 scalars.
\* With copy the work array is a float32 copy; without it the caller's array is
\* changed in place, in its own floating type.
ScaleDataOnCPU(data, c, copy) ==
    IF ~copy /\ ~IsFloating(data.dtype)
    THEN [err |-> "ValueError: data must be of floating type for no copying",
          buf |-> NoBuf, caller |-> AsFracs(data.vals)]
    ELSE LET work == IF copy THEN "float32" ELSE data.dtype
             start(i) == IF copy THEN F32(data.vals[i]) ELSE data.vals[i]
             Rnd(x) == IF work = "float32" THEN F32(x) ELSE x
             scaled ==
                 [i \in DOMAIN data.vals |->
                     IF c.lo = c.hi
                     THEN (IF c.lo # 0 THEN Frac(start(i), c.lo)
                           ELSE Frac(start(i), 1))
                     ELSE Frac(Rnd(start(i) - c.lo), F32(c.hi - c.lo))]
         IN  [err |-> "ok",
              buf |-> [dtype |-> IF ShouldCastToF32(work) THEN "float32" ELSE work,
                       vals |-> scaled],
              caller |-> IF copy THEN AsFracs(data.vals) ELSE scaled]

\* the channel test with the rank 2 written out, as _compute_clim has it
ChannelTestFixedRank(nd, data) ==
    IF Rank(data) = 2 THEN "single"
    ELSE IF Rank(data) < 3 THEN "IndexError"
    ELSE IF data.shape[3] = 1 THEN "single" ELSE "multi"

\* the test of CPUScaledTextureMixIn.scale_and_set_data, line 259:
\* data.ndim == self._ndim or data.shape[self._ndim] == 1
\* "single", "multi", or "IndexError" when the shape has no such axis
ChannelTestCPU(nd, data) ==
    IF Rank(data) = nd THEN "single"
    ELSE IF Rank(data) < nd + 1 THEN "IndexError"
    ELSE IF data.shape[nd + 1] = 1 THEN "single" ELSE "multi"

\* CPUScaledTextureMixIn.scale_and_set_data up to the call of the underlying
\* upload: the exception raised, the values assigned to _clim and _data_limits
\* (the old ones when the assignment is not reached), the buffer forwarded
ScaleAndSetDataCPU(nd, c, limits, data, copy) ==
    LET kind == ChannelTestCPU(nd, data)
        failed(e) == [err |-> e, clim |-> c, limits |-> limits,
                      buf |-> NoBuf, caller |-> AsFracs(data.vals)]
    IN  IF kind = "IndexError" THEN failed("IndexError: tuple index out of range")
        ELSE IF kind = "single"
        THEN IF c.tag = "none"
             THEN failed("TypeError: NoneType is not subscriptable")
             ELSE LET c1 == IF IsAuto(c)
                            THEN ClimPair(SeqMin(data.vals), SeqMax(data.vals))
                            ELSE c
                      c2 == ClimPair(F32(c1.lo), F32(c1.hi))
                      sc == ScaleDataOnCPU(data, c2, copy)
                  IN  IF sc.err # "ok"
                      THEN [failed(sc.err) EXCEPT !.caller = sc.caller]
                      ELSE [err |-> "ok", clim |-> c2, limits |-> c2,
                            buf |-> sc.buf, caller |-> sc.caller]
        ELSE LET dl == GetDefaultClims(data)
             IN  [err |-> "ok",
                  clim |-> IF IsAuto(c) THEN dl ELSE c,
                  limits |-> dl,
                  buf |-> [dtype |-> data.dtype, vals |-> AsFracs(data.vals)],
                  caller |-> AsFracs(data.vals)]

\* CPUScaledTextureMixIn.clim_normalized; nan where numpy divides 0 by 0
ClimNormalizedCPU(c, limits) ==
    <<Frac(c.lo - limits.lo, limits.hi - limits.lo),
      Frac(c.hi - limits.lo, limits.hi - limits.lo)>>

-----------------------------------------------------------------------------
(* GPU strategy *)

\* the test of GPUScaledTextureMixin._compute_clim, line 352:
\* data.ndim == 2 or data.shape[2] == 1
ChannelTestGPU(data) ==
    IF Rank(data) = 2 THEN "single"
    ELSE IF Rank(data) < 3 THEN "IndexError"
    ELSE IF data.shape[3] = 1 THEN "single" ELSE "multi"

\* _compute_clim without the branch that resolves 'auto' for multi-channel data
ComputeClimKeepsAuto(c, data) ==
    LET kind == ChannelTestGPU(data)
    IN  IF kind = "IndexError"
        THEN [err |-> "IndexError: tuple index out of range", clim |-> c]
        ELSE IF kind = "single"
        THEN IF c.tag = "none"
             THEN [err |-> "TypeError: NoneType is not subscriptable", clim |-> c]
             ELSE LET c1 == IF IsAuto(c)
                            THEN ClimPair(SeqMin(data.vals), SeqMax(data.vals))
                            ELSE c
                  IN  [err |-> "ok", clim |-> ClimPair(F32(c1.lo), F32(c1.hi))]
        ELSE [err |-> "ok", clim |-> c]

\* GPUScaledTextureMixin._compute_clim
ComputeClim(c, data) ==
    LET kind == ChannelTestGPU(data)
    IN  IF kind = "IndexError"
        THEN [err |-> "IndexError: tuple index out of range", clim |-> c]
        ELSE IF kind = "single"
        THEN IF c.tag = "none"
             THEN [err |-> "TypeError: NoneType is not subscriptable", clim |-> c]
             ELSE LET c1 == IF IsAuto(c)
                            THEN ClimPair(SeqMin(data.vals), SeqMax(data.vals))
                            ELSE c
                  IN  [err |-> "ok", clim |-> ClimPair(F32(c1.lo), F32(c1.hi))]
        ELSE [err |-> "ok", clim |-> IF IsAuto(c) THEN GetDefaultClims(data) ELSE c]

\* the format token data would need: _create_rep_array, then _get_gl_tex_format
\* of data.dtype and the last axis of the representative array
NewInternalformat(nd, data) ==
    GetGlTexFormat(HintDType(data.dtype),
                   LET rep == CreateRepArray(nd, data, None)
                   IN  rep.shape[Len(rep.shape)])

\* GPUScaledTextureMixin._internalformat_will_change
InternalformatWillChange(nd, fmt, data) ==
    LET new_if == NewInternalformat(nd, data)
    IN  [err |-> new_if.err, val |-> new_if.err = "ok" /\ new_if.val # fmt]

\* check_data_format without the test of _auto_texture_format
CheckDataFormatStrict(nd, fmt, auto, data) ==
    LET wc == InternalformatWillChange(nd, fmt, data)
    IN  IF wc.err # "ok" THEN wc.err
        ELSE IF wc.val
        THEN "ValueError: data being set would cause a format change"
        ELSE "ok"

\* GPUScaledTextureMixin.check_data_format: the exception raised, or "ok"
CheckDataFormatGPU(nd, fmt, auto, data) ==
    LET wc == InternalformatWillChange(nd, fmt, data)
    IN  IF wc.err # "ok" THEN wc.err
        ELSE IF wc.val /\ ~auto
        THEN "ValueError: data being set would cause a format change"
        ELSE "ok"

\* _reformat_if_necessary without the test of _auto_texture_format
ReformatIfNecessaryUnlocked(nd, fmt, auto, data) ==
    LET wc == InternalformatWillChange(nd, fmt, data)
    IN  IF wc.err # "ok" THEN [err |-> wc.err, fmt |-> fmt, resized |-> FALSE]
        ELSE IF ~wc.val THEN [err |-> "ok", fmt |-> fmt, resized |-> FALSE]
        ELSE [err |-> "ok", fmt |-> NewInternalformat(nd, data).val, resized |-> TRUE]

\* GPUScaledTextureMixin._reformat_if_necessary: the exception raised, the
\* internalformat afterwards, and whether _resize was called
ReformatIfNecessary(nd, fmt, auto, data) ==
    LET wc == InternalformatWillChange(nd, fmt, data)
    IN  IF wc.err # "ok" THEN [err |-> wc.err, fmt |-> fmt, resized |-> FALSE]
        ELSE IF ~wc.val THEN [err |-> "ok", fmt |-> fmt, resized |-> FALSE]
        ELSE IF auto
        THEN [err |-> "ok", fmt |-> NewInternalformat(nd, data).val, resized |-> TRUE]
        ELSE [err |-> "RuntimeError: internalformat needs to change", fmt |-> fmt,
              resized |-> FALSE]

\* GPU scale_and_set_data that records _data_dtype before it reconciles the format
ScaleAndSetDataGPUDtypeFirst(nd, c, fmt, auto, dt, data) ==
    LET rf == ReformatIfNecessary(nd, fmt, auto, data)
        cc == ComputeClim(c, data)
    IN  IF rf.err # "ok"
        THEN [err |-> rf.err, fmt |-> fmt, resized |-> FALSE, dtype |-> data.dtype,
              clim |-> c, buf |-> NoBuf]
        ELSE IF cc.err # "ok"
        THEN [err |-> cc.err, fmt |-> rf.fmt, resized |-> rf.resized,
              dtype |-> data.dtype, clim |-> c, buf |-> NoBuf]
        ELSE [err |-> "ok", fmt |-> rf.fmt, resized |-> rf.resized,
              dtype |-> data.dtype, clim |-> cc.clim,
              buf |-> [dtype |-> data.dtype, vals |-> AsFracs(data.vals)]]

\* GPUScaledTextureMixin.scale_and_set_data up to the call of the underlying
\* upload, statement by statement: what is raised and what each field holds
ScaleAndSetDataGPU(nd, c, fmt, auto, dt, data) ==
    LET rf == ReformatIfNecessary(nd, fmt, auto, data)
        cc == ComputeClim(c, data)
    IN  IF rf.err # "ok"
        THEN [err |-> rf.err, fmt |-> fmt, resized |-> FALSE, dtype |-> dt,
              clim |-> c, buf |-> NoBuf]
        ELSE IF cc.err # "ok"
        THEN [err |-> cc.err, fmt |-> rf.fmt, resized |-> rf.resized,
              dtype |-> data.dtype, clim |-> c, buf |-> NoBuf]
        ELSE [err |-> "ok", fmt |-> rf.fmt, resized |-> rf.resized,
              dtype |-> data.dtype, clim |-> cc.clim,
              buf |-> [dtype |-> data.dtype, vals |-> AsFracs(data.vals)]]

\* normalize_value with 0 for the minimum of the type
NormalizeValueFromZero(fmt, val, dt) ==
    IF ~IsNormalized(fmt) THEN Ok(Frac(val, 1))
    ELSE IF dt = None \/ IsFloating(dt)
    THEN [err |-> "ValueError: invalid integer data type", val |-> NaN]
    ELSE Ok(Frac(val, IInfoMax(dt) - IInfoMin(dt)))

\* _ScaledTextureMixin.normalize_value; iinfo of a floating type raises
NormalizeValue(fmt, val, dt) ==
    IF ~IsNormalized(fmt) THEN Ok(Frac(val, 1))
    ELSE IF dt = None \/ IsFloating(dt)
    THEN [err |-> "ValueError: invalid integer data type", val |-> NaN]
    ELSE Ok(Frac(val - IInfoMin(dt), IInfoMax(dt) - IInfoMin(dt)))

\* _ScaledTextureMixin.clim_normalized.  self.clim[0] of None raises; of 'auto'
\* it is the character 'a', which a non-normalized format returns as it is and
\* a normalized one fails to subtract from
ClimNormalizedGeneric(fmt, c, dt) ==
    LET lo == NormalizeValue(fmt, c.lo, dt)
        hi == NormalizeValue(fmt, c.hi, dt)
    IN  IF c.tag = "none"
        THEN [err |-> "TypeError: NoneType is not subscriptable", val |-> <<NaN, NaN>>]
        ELSE IF lo.err # "ok" THEN [err |-> lo.err, val |-> <<NaN, NaN>>]
        ELSE IF c.tag = "auto"
        THEN IF IsNormalized(fmt)
             THEN [err |-> "TypeError: unsupported operand types", val |-> <<NaN, NaN>>]
             ELSE [err |-> "ok", val |-> <<"a", "u">>]
        ELSE [err |-> "ok", val |-> <<lo.val, hi.val>>]

-----------------------------------------------------------------------------
(* Construction *)

\* GPUScaledTextureMixin._get_texture_format_for_data; data is the
\* representative array that init_scaling_texture passes, never None.
\* With internalformat None the local texture_format is returned unbound.
GetTextureFormatForDataGPU(nd, data, format, hint) ==
    IF hint.kind = "none"
    THEN [err |-> "UnboundLocalError: texture_format", val |-> NoFormat,
          auto |-> FALSE, warned |-> FALSE]
    ELSE LET num_channels == DataNumChannels(nd, data, format)
             h == HandleAutoTextureFormat(hint, data, FALSE)
             g == GetGlTexFormat(h.fmt, num_channels)
         IN  [err |-> g.err, val |-> g.val, auto |-> h.auto, warned |-> h.warned]

\* _ScaledTextureMixin._get_texture_format_for_data returns internalformat
GetTextureFormatForDataGeneric(hint) ==
    [err |-> "ok", val |-> hint.tok, auto |-> FALSE, warned |-> FALSE]

\* __init__ and init_scaling_texture, then the underlying texture's __init__
\* with the representative array and the resolved internalformat
Construct(st, nd, data, format, hint) ==
    LET rep == CreateRepArray(nd, data, format)
        f == IF st = "gpu" THEN GetTextureFormatForDataGPU(nd, rep, format, hint)
             ELSE GetTextureFormatForDataGeneric(hint)
    IN  [err |-> f.err,
         data_dtype |-> data.dtype,
         internalformat |-> f.val,
         auto |-> f.auto,
         warned |-> f.warned]

-----------------------------------------------------------------------------
(* The texture object *)

Strategies == {"cpu", "gpu"}

\* Texture2D and Texture3D
NDims == {2, 3}

Formats == {None, "luminance"}

\* internalformat arguments: the GPU strategy takes 'auto', a GL token or a
\* numpy type; the CPU strategy hands its argument to the texture unchanged
Hints(st) ==
    IF st = "gpu"
    THEN {HintNone, HintStr(Auto), HintStr(<<"r", "8">>),
          HintStr(<<"r", "3", "2", "f">>),
          HintDType("float32"), HintDType("int16"), HintDType("int32")}
    ELSE {HintNone}

\* The record of a call.  An upload that raises has read no element of its
\* array: the array, the buffer handed to the texture and the caller's array
\* after the call are recorded for the uploads that complete.
NoCall == [op |-> "__init__", arg |-> ArgStr(""), data |-> NoData, copy |-> FALSE,
           format |-> None, hint |-> HintNone, warned |-> FALSE,
           err |-> "ok", ret |-> FALSE, calls |-> <<>>, buf |-> NoBuf,
           caller |-> <<>>]

Init ==
    \E st \in Strategies, nd \in NDims :
      \E d \in {NoData} \cup ZeroArrays(nd), f \in Formats, h \in Hints(st) :
        LET r == Construct(st, nd, d, f, h)
        IN  /\ strategy = st
            /\ ndim = nd
            /\ alive = (r.err = "ok")
            /\ clim = ClimNone
            /\ data_dtype = r.data_dtype
            /\ data_limits = ClimNone
            /\ internalformat = r.internalformat
            /\ auto_texture_format = r.auto
            /\ last = [NoCall EXCEPT !.data = d, !.format = f, !.hint = h,
                                      !.warned = r.warned, !.err = r.err]

\* texture.set_clim(arg)
SetClim ==
    /\ alive
    /\ \E arg \in ClimArgs :
         \E r \in {IF strategy = "cpu" THEN SetClimCPU(clim, data_limits, arg)
                   ELSE SetClimGeneric(clim, arg)} :
             /\ clim' = r.clim
             /\ last' = [NoCall EXCEPT !.op = "set_clim", !.arg = arg,
                                       !.err = r.err, !.ret = r.ret]
    /\ UNCHANGED <<strategy, ndim, alive, data_dtype, data_limits,
                   internalformat, auto_texture_format>>

\* texture.scale_and_set_data(data, copy=copy) on the CPU strategy.  _data_dtype
\* is assigned first (line 255); _clim and _data_limits only when nothing raised.
UploadCPU(data, copy) ==
    \E r \in {ScaleAndSetDataCPU(ndim, clim, data_limits, data, copy)} :
        /\ data_dtype' = data.dtype
        /\ clim' = r.clim
        /\ data_limits' = r.limits
        /\ last' = IF r.err = "ok"
                   THEN [NoCall EXCEPT !.op = "scale_and_set_data", !.data = data,
                                       !.copy = copy, !.calls = <<"set_data">>,
                                       !.buf = r.buf, !.caller = r.caller]
                   ELSE [NoCall EXCEPT !.op = "scale_and_set_data", !.err = r.err]
        /\ UNCHANGED <<internalformat, auto_texture_format>>

\* texture.scale_and_set_data(data, copy=copy) on the GPU strategy
UploadGPU(data, copy) ==
    \E r \in {ScaleAndSetDataGPU(ndim, clim, internalformat, auto_texture_format,
                                data_dtype, data)} :
        /\ internalformat' = r.fmt
        /\ data_dtype' = r.dtype
        /\ clim' = r.clim
        /\ last' = IF r.err = "ok"
                   THEN [NoCall EXCEPT !.op = "scale_and_set_data", !.data = data,
                                       !.copy = copy,
                                       !.calls = (IF r.resized THEN <<"_resize">>
                                                  ELSE <<>>) \o <<"set_data">>,
                                       !.buf = r.buf,
                                       !.caller = AsFracs(data.vals)]
                   ELSE [NoCall EXCEPT !.op = "scale_and_set_data", !.err = r.err,
                                       !.calls = IF r.resized THEN <<"_resize">>
                                                 ELSE <<>>]
        /\ UNCHANGED <<data_limits, auto_texture_format>>

ScaleAndSetData ==
    /\ alive
    /\ \E data \in Arrays(ndim) :
         IF strategy = "cpu" THEN \E copy \in BOOLEAN : UploadCPU(data, copy)
         ELSE UploadGPU(data, FALSE)
    /\ UNCHANGED <<strategy, ndim, alive>>

\* texture.check_data_format(data): the generic method returns, the GPU one
\* checks.  Only the element type and the shape of data are read.
CheckDataFormat ==
    /\ alive
    /\ \E data \in ZeroArrays(ndim) :
         last' = [NoCall EXCEPT !.op = "check_data_format",
                     !.err = IF strategy = "gpu"
                             THEN CheckDataFormatGPU(ndim, internalformat,
                                                     auto_texture_format, data)
                             ELSE "ok"]
    /\ UNCHANGED <<strategy, ndim, alive, clim, data_dtype, data_limits,
                   internalformat, auto_texture_format>>

Next == SetClim \/ ScaleAndSetData \/ CheckDataFormat

Spec == Init /\ [][Next]_vars

\* the CPUScaledTexture2D/3D objects alone, and the GPUScaledTexture ones alone
InitCPU == Init /\ strategy = "cpu"
InitGPU == Init /\ strategy = "gpu"
SpecCPU == InitCPU /\ [][Next]_vars
SpecGPU == InitGPU /\ [][Next]_vars

\* is_normalized over format tokens: one to four channels, a bit width, and no
\* suffix or one of 'f', 'i', 'ui', '_snorm'
FormatSuffixes ==
    {<<>>, <<"f">>, <<"i">>, <<"u", "i">>, <<"_", "s", "n", "o", "r", "m">>}

FormatWidths == {<<"8">>, <<"1", "6">>, <<"3", "2">>}

FormatTokens ==
    {RgbaPrefix(n) \o w \o sfx :
        n \in 1..4, w \in FormatWidths, sfx \in FormatSuffixes}

\* a texture whose internalformat is any token, or None
InitTokens ==
    /\ strategy \in Strategies
    /\ ndim \in NDims
    /\ alive = TRUE
    /\ clim = ClimNone
    /\ data_dtype = None
    /\ data_limits = ClimNone
    /\ internalformat \in FormatTokens \cup {NoFormat}
    /\ auto_texture_format = FALSE
    /\ last = NoCall

\* texture.is_normalized
IsNormalizedRead ==
    /\ last.op = "__init__"
    /\ last' = [NoCall EXCEPT !.op = "is_normalized",
                              !.ret = IsNormalized(internalformat)]
    /\ UNCHANGED <<strategy, ndim, alive, clim, data_dtype, data_limits,
                   internalformat, auto_texture_format>>

SpecTokens == InitTokens /\ [][IsNormalizedRead]_vars

-----------------------------------------------------------------------------
(* The error kinds of the specification, as the exceptions the code raises *)

InvalidRangeSpec == {"ValueError: clim must be auto if a string",
                     "ValueError: clim must have two elements"}
UnsupportedFormat == "ValueError: can't determine internal texture format"
FormatLocked == "RuntimeError: internalformat needs to change"
FormatMismatch == "ValueError: data being set would cause a format change"
InvalidOperation == "ValueError: data must be of floating type for no copying"

(* Vocabulary of the claims *)

Constructed == last.op = "__init__"
Uploaded == last.op = "scale_and_set_data"
UploadedOk == Uploaded /\ last.err = "ok"
UploadFailed == Uploaded /\ last.err # "ok"
ClimSet == last.op = "set_clim"

\* the channel axis of an array for a texture of spatial rank nd: single-channel
\* is rank nd, or rank nd + 1 with a trailing axis of length 1
ChannelsOf(nd, a) == IF Rank(a) = nd + 1 THEN a.shape[nd + 1] ELSE 1
SingleChannel(nd, a) == ChannelsOf(nd, a) = 1
MultiChannel(nd, a) == ChannelsOf(nd, a) > 1

\* the type-to-format table entry of element type dt, its 'r' expanded to n channels
BaseBits(dt) ==
    IF dt \in {"float32", "float64"} THEN <<"3", "2", "f">>
    ELSE IF dt \in {"uint8", "int8"} THEN <<"8">>
    ELSE <<"1", "6">>
ChannelLetters(n) ==
    CASE n = 1 -> <<"r">>
      [] n = 2 -> <<"r", "g">>
      [] n = 3 -> <<"r", "g", "b">>
      [] OTHER -> <<"r", "g", "b", "a">>
ExpectedFormat(dt, n) == ChannelLetters(n) \o BaseBits(dt)

\* (0, 1) for floating point, the full representable range for an integer type
DefaultRangeFor(dt) ==
    CASE dt \in {"float32", "float64"} -> ClimPair(0, 1)
      [] dt = "uint8" -> ClimPair(0, 255)
      [] dt = "int16" -> ClimPair(-32768, 32767)
      [] OTHER -> ClimPair(IInfoMin(dt), IInfoMax(dt))

-----------------------------------------------------------------------------
\* C1: whenever scale_and_set_data fails, clim, _data_dtype, _data_limits and
\* internalformat equal their values before the call, and neither a resize nor
\* a raw upload was issued to the underlying texture.  (The code assigns
\* _data_dtype, and on the GPU strategy resizes, before it can raise.)
C1_UploadAllOrNothing ==
    [][(last'.op = "scale_and_set_data" /\ last'.err # "ok")
         => /\ clim' = clim
            /\ data_dtype' = data_dtype
            /\ data_limits' = data_limits
            /\ internalformat' = internalformat
            /\ last'.calls = <<>>]_vars

-----------------------------------------------------------------------------
\* C2: on a GPU texture whose _auto_texture_format is false the internalformat
\* never changes, whatever is called, and in every state every upload of an array
\* that resolves to a format token other than the current one fails with
\* FormatLocked without a resize.
C2_LockedInState ==
    (alive /\ strategy = "gpu" /\ ~auto_texture_format)
      => \A data \in Arrays(ndim) :
           (data.dtype \in TextureDtypeFormatKeys
              /\ ExpectedFormat(data.dtype, ChannelsOf(ndim, data)) # internalformat)
             => LET r == ScaleAndSetDataGPU(ndim, clim, internalformat,
                                            auto_texture_format, data_dtype, data)
                IN  r.err = FormatLocked /\ ~r.resized /\ r.fmt = internalformat

C2_LockedInStep ==
    (strategy = "gpu" /\ ~auto_texture_format)
      => /\ internalformat' = internalformat
         /\ ~auto_texture_format'
         /\ (last'.op = "scale_and_set_data" =>
               \A i \in 1..Len(last'.calls) : last'.calls[i] # "_resize")

\* C2: the locked format, in every state and over every step
C2_FormatLocked == [](C2_LockedInState) /\ [][C2_LockedInStep]_vars

\* a locked GPU texture has just refused an upload
C2_Witness ==
    /\ strategy = "gpu" /\ ~auto_texture_format
    /\ Uploaded /\ last.err = FormatLocked /\ last.calls = <<>>

-----------------------------------------------------------------------------
\* C3 as claimed: a GPU texture constructed with internalformat 'auto' and data
\* has _auto_texture_format set and, at construction and after every successful
\* upload, an internalformat equal to the table entry of the latest array's
\* element type expanded to that array's channel count; an upload resizes
\* exactly when that token differs from the current one.
C3_OriginalInState ==
    (alive /\ strategy = "gpu")
      => /\ (Constructed /\ last.hint = HintStr(Auto) /\ ~IsNone(last.data))
              => /\ auto_texture_format
                 /\ internalformat =
                      ExpectedFormat(last.data.dtype, ChannelsOf(ndim, last.data))
         /\ (auto_texture_format /\ UploadedOk)
              => internalformat =
                   ExpectedFormat(last.data.dtype, ChannelsOf(ndim, last.data))

C3_ResizeInStep ==
    (strategy = "gpu" /\ auto_texture_format
       /\ last'.op = "scale_and_set_data" /\ last'.err = "ok")
      => ((\E i \in 1..Len(last'.calls) : last'.calls[i] = "_resize")
            <=> ExpectedFormat(last'.data.dtype, ChannelsOf(ndim, last'.data))
                  # internalformat)

\* C3 as claimed, in every state and over every step
C3_Original == [](C3_OriginalInState) /\ [][C3_ResizeInStep]_vars

\* C3 as amended: at construction the channel count is 1 when format is
\* 'luminance', whatever the trailing axis of the data; the rest as claimed.
C3_AmendedInState ==
    (alive /\ strategy = "gpu")
      => /\ (Constructed /\ last.hint = HintStr(Auto) /\ ~IsNone(last.data))
              => /\ auto_texture_format
                 /\ internalformat =
                      ExpectedFormat(last.data.dtype,
                                     IF last.format = "luminance" THEN 1
                                     ELSE ChannelsOf(ndim, last.data))
         /\ (auto_texture_format /\ UploadedOk)
              => internalformat =
                   ExpectedFormat(last.data.dtype, ChannelsOf(ndim, last.data))

\* C3 as amended, in every state and over every step
C3_AutoFormat == [](C3_AmendedInState) /\ [][C3_ResizeInStep]_vars

\* an 'auto' texture took a two-channel array of another type and was resized
C3_Witness ==
    /\ strategy = "gpu" /\ auto_texture_format /\ UploadedOk
    /\ last.calls = <<"_resize", "set_data">>
    /\ MultiChannel(ndim, last.data)
    /\ internalformat = <<"r", "g", "1", "6">>

-----------------------------------------------------------------------------
\* C4 as claimed: set_clim returns True whenever clim was 'auto' before the
\* call or is 'auto' after it.
C4_Original ==
    [][(last'.op = "set_clim" /\ last'.err = "ok" /\ (IsAuto(clim) \/ IsAuto(clim')))
         => last'.ret]_vars

\* C4 as amended: set_clim returns True whenever clim is 'auto' after the call;
\* when clim was 'auto' before the call and a pair is given, the generic
\* set_clim returns False and the CPU one returns True only for a pair outside
\* the recorded data limits.
C4_AutoInState ==
    (ClimSet /\ last.err = "ok" /\ IsAuto(clim)) => last.ret

C4_FromAutoInStep ==
    (last'.op = "set_clim" /\ last'.err = "ok" /\ IsAuto(clim) /\ ~IsAuto(clim'))
      => (last'.ret <=> (/\ strategy = "cpu"
                         /\ data_limits.tag = "pair"
                         /\ (clim'.lo < data_limits.lo \/ clim'.hi > data_limits.hi)))

\* C4 as amended, in every state and over every step
C4_AutoNeedsUpload == [](C4_AutoInState) /\ [][C4_FromAutoInStep]_vars

C4_Witness == ClimSet /\ last.err = "ok" /\ IsAuto(clim) /\ last.ret

-----------------------------------------------------------------------------
\* C5: on the CPU strategy set_clim((a, b)) stores (a, b) as clim and returns
\* True exactly when data limits (lo, hi) are recorded and a < lo or b > hi;
\* no set_clim changes the data limits.
C5_PairInState ==
    (strategy = "cpu" /\ ClimSet /\ last.err = "ok" /\ last.arg.kind = "seq")
      => /\ clim = ClimPair(last.arg.v[1], last.arg.v[2])
         /\ last.ret <=> (/\ data_limits.tag = "pair"
                          /\ (\/ last.arg.v[1] < data_limits.lo
                              \/ last.arg.v[2] > data_limits.hi))

C5_LimitsInStep == (last'.op = "set_clim") => data_limits' = data_limits

\* C5: the returned flag and the stored pair, and the untouched data limits
C5_OutsideDataLimits == [](C5_PairInState) /\ [][C5_LimitsInStep]_vars

\* a pair reaching above the recorded limits asked for a new upload
C5_Witness ==
    /\ strategy = "cpu" /\ ClimSet /\ last.err = "ok" /\ last.ret
    /\ data_limits.tag = "pair" /\ clim.tag = "pair"
    /\ clim.lo >= data_limits.lo /\ clim.hi > data_limits.hi

-----------------------------------------------------------------------------
\* C6: set_clim with a string other than 'auto', a scalar, or a sequence of
\* other than two elements fails with InvalidRangeSpec and leaves clim, the data
\* limits and the data type as they were.
BadRangeSpec(arg) ==
    \/ arg.kind = "str" /\ arg.s # "auto"
    \/ arg.kind = "scalar"
    \/ arg.kind = "seq" /\ Len(arg.v) # 2

C6_RejectedInState == (ClimSet /\ BadRangeSpec(last.arg)) => last.err \in InvalidRangeSpec

C6_RejectedInStep ==
    (last'.op = "set_clim" /\ BadRangeSpec(last'.arg))
      => clim' = clim /\ data_limits' = data_limits /\ data_dtype' = data_dtype

\* C6: the refusal, and the fields it leaves alone
C6_InvalidRangeSpec == [](C6_RejectedInState) /\ [][C6_RejectedInStep]_vars

\* a three-element range was refused and the pair set before is still there
C6_Witness ==
    /\ ClimSet /\ last.arg = ArgSeq(<<0, 0, 0>>) /\ last.err \in InvalidRangeSpec
    /\ clim.tag = "pair"

-----------------------------------------------------------------------------
\* C7 as claimed: on the CPU strategy a single-channel array uploaded while clim
\* is 'auto' leaves both the data limits and clim equal to (min, max) over the
\* array, and the data type equal to the array's element type.
C7_Original ==
    [][(strategy = "cpu" /\ IsAuto(clim)
          /\ last'.op = "scale_and_set_data" /\ last'.err = "ok"
          /\ SingleChannel(ndim, last'.data))
         => /\ data_limits' = ClimPair(SeqMin(last'.data.vals), SeqMax(last'.data.vals))
            /\ clim' = data_limits'
            /\ data_dtype' = last'.data.dtype]_vars

\* C7 as amended: both equal (min, max) over the array rounded to float32.
C7_AutoLimits ==
    [][(strategy = "cpu" /\ IsAuto(clim)
          /\ last'.op = "scale_and_set_data" /\ last'.err = "ok"
          /\ SingleChannel(ndim, last'.data))
         => /\ data_limits' = ClimPair(F32(SeqMin(last'.data.vals)),
                                       F32(SeqMax(last'.data.vals)))
            /\ clim' = data_limits'
            /\ data_dtype' = last'.data.dtype]_vars

\* a single-channel array whose maximum float32 cannot hold was uploaded and the
\* limits hold the rounded maximum
C7_Witness ==
    /\ strategy = "cpu" /\ UploadedOk /\ SingleChannel(ndim, last.data)
    /\ SeqMin(last.data.vals) = -100 /\ SeqMax(last.data.vals) = 16777217
    /\ data_limits = ClimPair(-100, 16777216) /\ clim = data_limits
    /\ data_dtype = last.data.dtype

-----------------------------------------------------------------------------
\* C8: on both strategies a multi-channel array uploaded while clim is 'auto'
\* resolves clim to the default range of its element type, never to its minimum
\* and maximum; on the CPU strategy the data limits are that range too and the
\* array reaches the texture unscaled.  (GPU _compute_clim tests data.ndim == 2
\* and data.shape[2], whatever the rank of the texture.)
C8_MultiChannelDefault ==
    [][(IsAuto(clim) /\ last'.op = "scale_and_set_data" /\ last'.err = "ok"
          /\ MultiChannel(ndim, last'.data))
         => /\ clim' = DefaultRangeFor(last'.data.dtype)
            /\ strategy = "cpu"
                 => /\ data_limits' = DefaultRangeFor(last'.data.dtype)
                    /\ last'.buf = [dtype |-> last'.data.dtype,
                                    vals |-> AsFracs(last'.data.vals)]]_vars

-----------------------------------------------------------------------------
\* C9: after a successful single-channel upload on the CPU strategy with
\* effective range (a, b), the texture holds (v - a) / (b - a) for every input
\* value v and clim_normalized is exactly (0, 1).  (With a = b the code scales
\* by the degenerate rule and clim_normalized divides 0 by 0.)
C9_RoundTrip ==
    (strategy = "cpu" /\ UploadedOk /\ SingleChannel(ndim, last.data))
      => /\ \A i \in DOMAIN last.data.vals :
              last.buf.vals[i] = Frac(last.data.vals[i] - clim.lo, clim.hi - clim.lo)
         /\ ClimNormalizedCPU(clim, data_limits) = <<Frac(0, 1), Frac(1, 1)>>

-----------------------------------------------------------------------------
\* C10: constructing a GPU texture with internalformat 'auto' and no data raises
\* nothing, warns, leaves the internalformat None and _auto_texture_format False.
\* (init_scaling_texture hands _get_texture_format_for_data the representative
\* array, so the branch for data None is never taken.)
C10_AutoWithoutData ==
    (strategy = "gpu" /\ Constructed /\ last.hint = HintStr(Auto) /\ IsNone(last.data))
      => /\ alive
         /\ last.warned
         /\ internalformat = NoFormat
         /\ ~auto_texture_format

-----------------------------------------------------------------------------
\* C11: on the GPU strategy a type the table does not hold fails with
\* UnsupportedFormat, at construction (a dtype hint, or 'auto' with data of that
\* type) and on every later upload of such data whatever _auto_texture_format
\* is; every type of the table resolves to one base token: float32 and float64
\* to 'r32f', uint8 and int8 to 'r8', uint16 and int16 to 'r16'.
C11_UnsupportedFormat ==
    strategy = "gpu"
      => /\ (Constructed
               /\ \/ last.hint.kind = "dtype" /\ last.hint.dt \notin TextureDtypeFormatKeys
                  \/ /\ last.hint = HintStr(Auto) /\ ~IsNone(last.data)
                     /\ last.data.dtype \notin TextureDtypeFormatKeys)
              => ~alive /\ last.err = UnsupportedFormat
         /\ alive =>
              \A data \in Arrays(ndim) :
                 data.dtype \notin TextureDtypeFormatKeys
                   => LET r == ScaleAndSetDataGPU(ndim, clim, internalformat,
                                                  auto_texture_format, data_dtype, data)
                      IN  /\ r.err = UnsupportedFormat
                          /\ r.fmt = internalformat /\ ~r.resized
         /\ \A dt \in TextureDtypeFormatKeys :
              GetGlTexFormat(HintDType(dt), 1) =
                 Ok(CASE dt \in {"float32", "float64"} -> <<"r", "3", "2", "f">>
                      [] dt \in {"uint8", "int8"} -> <<"r", "8">>
                      [] OTHER -> <<"r", "1", "6">>)
         /\ (Uploaded /\ last.err = "ok") => last.data.dtype \in TextureDtypeFormatKeys

\* an upload was refused for its element type
C11_Witness ==
    /\ strategy = "gpu" /\ alive /\ Uploaded /\ last.err = UnsupportedFormat
    /\ last.calls = <<>>

-----------------------------------------------------------------------------
\* C12 as claimed: on a GPU texture check_data_format fails with FormatMismatch
\* exactly when the format token of the data differs from the internalformat and
\* _auto_texture_format is false; it changes nothing; for every array and every
\* state it fails if and only if scale_and_set_data of the same array would fail
\* with FormatLocked.  On the CPU strategy it never fails.
C12_OriginalInState ==
    (alive /\ strategy = "gpu")
      => \A data \in Arrays(ndim) :
           LET e == CheckDataFormatGPU(ndim, internalformat, auto_texture_format, data)
               r == ScaleAndSetDataGPU(ndim, clim, internalformat,
                                       auto_texture_format, data_dtype, data)
           IN  /\ (e = FormatMismatch)
                    <=> (/\ data.dtype \in TextureDtypeFormatKeys
                         /\ ExpectedFormat(data.dtype, ChannelsOf(ndim, data))
                              # internalformat
                         /\ ~auto_texture_format)
               /\ (e # "ok") <=> (r.err = FormatLocked)

C12_CheckInStep ==
    (last'.op = "check_data_format")
      => /\ UNCHANGED <<strategy, ndim, alive, clim, data_dtype, data_limits,
                        internalformat, auto_texture_format>>
         /\ strategy = "cpu" => last'.err = "ok"

\* C12 as claimed, in every state and over every step
C12_Original == [](C12_OriginalInState) /\ [][C12_CheckInStep]_vars

\* C12 as amended: check_data_format fails with FormatMismatch if and only if
\* the upload would fail with FormatLocked; for an array whose element type the
\* table does not hold both fail with UnsupportedFormat; check_data_format
\* fails in no other way.
C12_AmendedInState ==
    (alive /\ strategy = "gpu")
      => \A data \in Arrays(ndim) :
           LET e == CheckDataFormatGPU(ndim, internalformat, auto_texture_format, data)
               r == ScaleAndSetDataGPU(ndim, clim, internalformat,
                                       auto_texture_format, data_dtype, data)
           IN  /\ (e = FormatMismatch)
                    <=> (/\ data.dtype \in TextureDtypeFormatKeys
                         /\ ExpectedFormat(data.dtype, ChannelsOf(ndim, data))
                              # internalformat
                         /\ ~auto_texture_format)
               /\ (e = FormatMismatch) <=> (r.err = FormatLocked)
               /\ (e = UnsupportedFormat) <=> (data.dtype \notin TextureDtypeFormatKeys)
               /\ (e = UnsupportedFormat) <=> (r.err = UnsupportedFormat)
               /\ e \in {"ok", FormatMismatch, UnsupportedFormat}

\* what check_data_format raised is what the model says it raises for some array
C12_RaisedInState ==
    (alive /\ strategy = "gpu" /\ last.op = "check_data_format")
      => \E data \in Arrays(ndim) :
           last.err = CheckDataFormatGPU(ndim, internalformat, auto_texture_format, data)

C12_CheckInState == C12_AmendedInState /\ C12_RaisedInState

\* C12 as amended, in every state and over every step
C12_CheckMatchesUpload == [](C12_CheckInState) /\ [][C12_CheckInStep]_vars

\* check_data_format has just refused an array on a locked GPU texture
C12_Witness ==
    /\ strategy = "gpu" /\ alive /\ ~auto_texture_format
    /\ last.op = "check_data_format" /\ last.err = FormatMismatch

-----------------------------------------------------------------------------
\* C13: on the CPU strategy rescaling a non-floating array with copy false fails
\* with InvalidOperation and leaves the caller's array as it was (no copy is
\* made in its place); with copy true the caller's array is never changed and
\* the result is a float32 array of its own.
C13_RescaleInState ==
    (alive /\ strategy = "cpu" /\ clim.tag # "none")
      => \A data \in Arrays(ndim) :
           LET c == IF IsAuto(clim)
                    THEN ClimPair(F32(SeqMin(data.vals)), F32(SeqMax(data.vals)))
                    ELSE ClimPair(F32(clim.lo), F32(clim.hi))
               nocopy == ScaleDataOnCPU(data, c, FALSE)
               copied == ScaleDataOnCPU(data, c, TRUE)
               up == ScaleAndSetDataCPU(ndim, clim, data_limits, data, FALSE)
           IN  /\ ~IsFloating(data.dtype)
                    => /\ nocopy.err = InvalidOperation
                       /\ nocopy.buf = NoBuf
                       /\ nocopy.caller = AsFracs(data.vals)
                       /\ SingleChannel(ndim, data)
                            => /\ up.err = InvalidOperation
                               /\ up.buf = NoBuf
                               /\ up.caller = AsFracs(data.vals)
               /\ copied.err = "ok"
               /\ copied.caller = AsFracs(data.vals)
               /\ copied.buf.dtype = "float32"
               /\ Len(copied.buf.vals) = Len(data.vals)

C13_UploadedInState ==
    (strategy = "cpu" /\ UploadedOk /\ SingleChannel(ndim, last.data))
      => /\ last.copy => /\ last.caller = AsFracs(last.data.vals)
                         /\ last.buf.dtype = "float32"
         /\ ~last.copy => IsFloating(last.data.dtype)

C13_FailedInStep ==
    (strategy = "cpu" /\ last'.op = "scale_and_set_data"
       /\ last'.err = InvalidOperation)
      => last'.calls = <<>> /\ last'.buf = NoBuf

C13_CopyInState == C13_RescaleInState /\ C13_UploadedInState

\* C13: the rescaling in every state, and the refused upload over every step
C13_RescaleCopy == [](C13_CopyInState) /\ [][C13_FailedInStep]_vars

\* an upload without copy of a non-floating array has just been refused
C13_Witness ==
    /\ strategy = "cpu" /\ Uploaded /\ last.err = InvalidOperation
    /\ last.calls = <<>> /\ clim.tag = "pair"

-----------------------------------------------------------------------------
\* C14: when clim is 'auto' before a successful upload it is a pair after it,
\* on both strategies; no upload and no set_clim of a pair makes it 'auto':
\* clim becomes 'auto' only by a set_clim('auto') that returns.
C14_AutoResolved ==
    [][/\ (IsAuto(clim) /\ last'.op = "scale_and_set_data" /\ last'.err = "ok")
            => clim'.tag = "pair"
       /\ (~IsAuto(clim) /\ IsAuto(clim'))
            => /\ last'.op = "set_clim"
               /\ last'.arg = ArgStr("auto")
               /\ last'.err = "ok"
       /\ (last'.op = "scale_and_set_data" /\ clim.tag = "pair")
            => clim'.tag = "pair"
       /\ (last'.op = "set_clim" /\ last'.arg.kind # "str" /\ clim.tag = "pair")
            => clim'.tag = "pair"]_vars

\* an upload has resolved 'auto' to the limits of its array: no set_clim of the
\* model gives -100 as a limit
C14_Witness ==
    /\ UploadedOk /\ SingleChannel(ndim, last.data)
    /\ clim = ClimPair(SeqMin(last.data.vals), SeqMax(last.data.vals))
    /\ clim.lo = -100 /\ clim.hi = 0

-----------------------------------------------------------------------------
\* C15: on the GPU strategy, for the 2-D and the 3-D texture, a single-channel
\* array uploaded while clim is 'auto' sets clim to (min, max) over the array
\* (as float32), only a multi-channel array gets the default range, and the
\* split is the one the CPU strategy makes.  (_compute_clim tests data.ndim == 2
\* and data.shape[2] where the CPU strategy tests self._ndim.)
C15_SingleChannelSplit ==
    [][(strategy = "gpu" /\ IsAuto(clim)
          /\ last'.op = "scale_and_set_data" /\ last'.err = "ok")
         => /\ SingleChannel(ndim, last'.data)
                 => clim' = ClimPair(F32(SeqMin(last'.data.vals)),
                                     F32(SeqMax(last'.data.vals)))
            /\ MultiChannel(ndim, last'.data)
                 => clim' = DefaultRangeFor(last'.data.dtype)
            /\ ChannelTestGPU(last'.data) = ChannelTestCPU(ndim, last'.data)]_vars

-----------------------------------------------------------------------------
-----------------------------------------------------------------------------
\* C17: a GPU upload reconciles the format (the one step that may resize), then
\* records _data_dtype, then computes and stores clim, then forwards the data:
\* an upload that fails to reconcile has changed nothing, one that fails to
\* compute clim has reconciled and recorded but stored no clim and forwarded
\* nothing; the array forwarded is the caller's, every value unchanged; a resize
\* comes before the raw upload of the same call.
C17_UploadOrder ==
    [][(strategy = "gpu" /\ last'.op = "scale_and_set_data")
         => /\ last'.calls \in {<<>>, <<"_resize">>, <<"set_data">>,
                                <<"_resize", "set_data">>}
            /\ (internalformat' # internalformat)
                 <=> (last'.calls # <<>> /\ last'.calls[1] = "_resize")
            /\ last'.err = "ok"
                 => /\ last'.calls[Len(last'.calls)] = "set_data"
                    /\ data_dtype' = last'.data.dtype
                    /\ clim.tag # "none" => clim'.tag = "pair"
                    /\ last'.buf = [dtype |-> last'.data.dtype,
                                    vals |-> AsFracs(last'.data.vals)]
                    /\ last'.caller = AsFracs(last'.data.vals)
            /\ last'.err # "ok"
                 => /\ clim' = clim
                    /\ last'.buf = NoBuf
                    /\ \A i \in 1..Len(last'.calls) : last'.calls[i] # "set_data"
            /\ last'.err \in {FormatLocked, UnsupportedFormat}
                 => /\ data_dtype' = data_dtype
                    /\ internalformat' = internalformat
                    /\ last'.calls = <<>>
            /\ (last'.err # "ok" /\ data_dtype' # data_dtype)
                 => last'.err \notin {FormatLocked, UnsupportedFormat}]_vars

\* an upload resized the texture, then handed on the two values it was given
C17_Witness ==
    /\ strategy = "gpu" /\ UploadedOk
    /\ last.calls = <<"_resize", "set_data">>
    /\ last.data.vals = <<-100, 0>>
    /\ last.buf.vals = <<Frac(-100, 1), Frac(0, 1)>>
    /\ data_dtype = last.data.dtype

-----------------------------------------------------------------------------
\* C18: on the GPU strategy, after a successful upload that leaves clim a pair,
\* clim_normalized does not fail; it is clim unchanged when the internalformat
\* is not normalized (its token ends in 'f' or 'i'), and otherwise
\* ((min - dmin) / (dmax - dmin), (max - dmin) / (dmax - dmin)) with
\* (dmin, dmax) the full range of the recorded _data_dtype.
C18_ClimNormalized ==
    (strategy = "gpu" /\ UploadedOk /\ clim.tag = "pair")
      => LET r == ClimNormalizedGeneric(internalformat, clim, data_dtype)
             suffix == internalformat[Len(internalformat)]
             d == DefaultRangeFor(data_dtype)
         IN  /\ r.err = "ok"
             /\ internalformat # NoFormat
             /\ suffix \in {"f", "i"}
                  => r.val = <<Frac(clim.lo, 1), Frac(clim.hi, 1)>>
             /\ suffix \notin {"f", "i"}
                  => /\ ~IsFloating(data_dtype)
                     /\ r.val = <<Frac(clim.lo - d.lo, d.hi - d.lo),
                                  Frac(clim.hi - d.lo, d.hi - d.lo)>>

\* int16 data spanning [-100, 0] went to an 'r16' texture under 'auto'
C18_Witness ==
    /\ strategy = "gpu" /\ UploadedOk /\ data_dtype = "int16"
    /\ internalformat = <<"r", "1", "6">>
    /\ clim = ClimPair(-100, 0)
    /\ ClimNormalizedGeneric(internalformat, clim, data_dtype) =
         Ok(<<Frac(32668, 65535), Frac(32768, 65535)>>)

-----------------------------------------------------------------------------
\* the token tok ends with the characters sfx
EndsWith(tok, sfx) ==
    /\ Len(tok) >= Len(sfx)
    /\ SubSeq(tok, Len(tok) - Len(sfx) + 1, Len(tok)) = sfx

\* C19: is_normalized is true when the internalformat is None, false when the
\* token ends with 'f', 'i' or 'ui', and true for every other token; so every
\* format the table gives for float32 and float64 is not normalized and every
\* format it gives for the 8- and 16-bit integer types is.
C19_IsNormalized ==
    /\ last.op = "is_normalized"
         => (last.ret <=> (\/ internalformat = NoFormat
                           \/ ~(\/ EndsWith(internalformat, <<"f">>)
                                \/ EndsWith(internalformat, <<"i">>)
                                \/ EndsWith(internalformat, <<"u", "i">>))))
    /\ \A dt \in TextureDtypeFormatKeys, n \in 1..4 :
         LET g == GetGlTexFormat(HintDType(dt), n)
         IN  /\ g.err = "ok"
             /\ g.val \in FormatTokens
             /\ IsNormalized(g.val) <=> dt \in {"uint8", "int8", "uint16", "int16"}
             /\ ~IsNormalized(g.val) <=> dt \in {"float32", "float64"}

\* is_normalized was read on an 'rg32ui' texture and gave False
C19_Witness ==
    /\ last.op = "is_normalized" /\ ~last.ret
    /\ internalformat = <<"r", "g", "3", "2", "u", "i">>

-----------------------------------------------------------------------------
\* the channel count as the specification words it
ChannelCountClaimed(nd, data, format) ==
    IF format = "luminance" THEN 1
    ELSE IF ~IsNone(data) /\ Rank(data) = nd + 1 THEN data.shape[nd + 1]
    ELSE 4

\* C20 as claimed: the channel count is 1 for the hint 'luminance'; otherwise
\* the length of the trailing axis when the rank of the data is the spatial rank
\* plus one; otherwise 4.
C20_Original ==
    /\ \A data \in Arrays(ndim) \cup {NoData}, f \in Formats :
         DataNumChannels(ndim, data, f) = ChannelCountClaimed(ndim, data, f)
    /\ (strategy = "gpu" /\ Constructed /\ alive
          /\ last.hint.kind = "str" /\ last.hint.tok # Auto)
         => internalformat =
              StrReplaceR(last.hint.tok,
                          RgbaPrefix(ChannelCountClaimed(ndim, last.data, last.format)))

\* the channel count with 1 for data without a channel axis
ChannelCountAmended(nd, data, format) ==
    IF format = "luminance" THEN 1
    ELSE IF IsNone(data) THEN 4
    ELSE IF Rank(data) = nd + 1 THEN data.shape[nd + 1]
    ELSE 1

\* C20 as amended: 1 for the hint 'luminance'; otherwise, for data, the length
\* of the trailing axis when its rank is the spatial rank plus one and 1 when
\* it is not; 4 only when there is no data.
C20_ChannelCount ==
    /\ \A data \in Arrays(ndim) \cup {NoData}, f \in Formats :
         DataNumChannels(ndim, data, f) = ChannelCountAmended(ndim, data, f)
    /\ (strategy = "gpu" /\ Constructed /\ alive
          /\ last.hint.kind = "str" /\ last.hint.tok # Auto)
         => internalformat =
              StrReplaceR(last.hint.tok,
                          RgbaPrefix(ChannelCountAmended(ndim, last.data, last.format)))
    /\ (strategy = "gpu" /\ UploadedOk /\ auto_texture_format)
         => internalformat =
              StrReplaceR(TextureDtypeFormat(last.data.dtype),
                          RgbaPrefix(ChannelCountAmended(ndim, last.data, None)))

\* a texture built from an array without a channel axis and the hint 'r8' has
\* one channel
C20_Witness ==
    /\ strategy = "gpu" /\ Constructed /\ alive
    /\ last.hint = HintStr(<<"r", "8">>) /\ last.format = None
    /\ ~IsNone(last.data) /\ Rank(last.data) = ndim
    /\ internalformat = <<"r", "8">>

-----------------------------------------------------------------------------
\* a fraction of the model lies in [0, 1]
InUnitInterval(q) == q[2] > 0 /\ 0 <= q[1] /\ q[1] <= q[2]

\* C21: on the CPU strategy, when set_clim of a pair returns True and the caller
\* uploads the same data again, then after that upload the data limits contain
\* clim, set_clim of the same pair returns False, and clim_normalized lies in
\* [0, 1], for single-channel and multi-channel data alike.  (A multi-channel
\* upload records the default range of the type as data limits and leaves clim
\* as it was set.)
C21_ReuploadConverges ==
    (strategy = "cpu" /\ UploadedOk /\ last.copy)
      => \A arg \in ClimArgs :
           LET s1 == SetClimCPU(clim, data_limits, arg)
               up == ScaleAndSetDataCPU(ndim, s1.clim, data_limits, last.data, TRUE)
               s2 == SetClimCPU(up.clim, up.limits, arg)
               cn == ClimNormalizedCPU(up.clim, up.limits)
           IN  (arg.kind = "seq" /\ s1.err = "ok" /\ s1.ret)
                 => /\ up.err = "ok"
                    /\ up.limits.lo <= up.clim.lo
                    /\ up.clim.hi <= up.limits.hi
                    /\ ~s2.ret
                    /\ InUnitInterval(cn[1])
                    /\ InUnitInterval(cn[2])

====
